---- MODULE Spec2Model ----
(***************************************************************************)
(* Model of verify/verify_evidence.py: one run of the tool.  The run reads *)
(* evidence.json, builds the verification request, POSTs it, and on HTTP   *)
(* 200 decodes the returned token (decode_jwt) and saves it.               *)
(*                                                                         *)
(* Printed lines are modelled by tags collected in the sequence out.       *)
(* Writes to the two output files are assumed to succeed (the open() of    *)
(* jwt_payload.json and jwt_token.txt does not raise).                     *)
(***************************************************************************)
EXTENDS Integers, Sequences, FiniteSets, TLC

VARIABLES pc, env, verbose, evidenceFile, startFiles, evidence_body, headers,
          posted, response, jwtTokenFile, jwtPayloadFile, decodeCalls, out,
          exitCode

vars == <<pc, env, verbose, evidenceFile, startFiles, evidence_body, headers,
          posted, response, jwtTokenFile, jwtPayloadFile, decodeCalls, out,
          exitCode>>

(***************************************************************************)
(* Bounds of the model.                                                    *)
(***************************************************************************)
\* longest uefi_event_logs list in a token payload
MaxLogs == 2
\* largest number of dot-separated parts of a response body
MaxParts == 4

(***************************************************************************)
(* JSON values the run reads.                                              *)
(***************************************************************************)
\* One entry of uefi_event_logs: whether it has 'details', what
\* details['data'] is, and the 'operation' / 'domain' values of a dict data
\* ("" when the key is absent).
LogEntry(details, data, operation, domain) ==
    [details |-> details, data |-> data, operation |-> operation, domain |-> domain]

CryptpilotDomain == "cryptpilot.alibabacloud.com"

LogEntries ==
    { LogEntry(FALSE, "absent", "", ""),
      LogEntry(TRUE, "absent", "", ""),
      LogEntry(TRUE, "scalar", "", ""),
      LogEntry(TRUE, "dict", "start_app", ""),
      LogEntry(TRUE, "dict", "load_key", CryptpilotDomain),
      LogEntry(TRUE, "dict", "stop_app", "other.example.com") }

RECURSIVE SeqsUpTo(_, _)
SeqsUpTo(S, n) ==
    IF n = 0 THEN { <<>> }
    ELSE LET shorter == SeqsUpTo(S, n - 1)
         IN  shorter \cup { Append(s, x) : s \in { t \in shorter : Len(t) = n - 1 }, x \in S }

\* Keys on the fixed path below the payload root; a key is only present
\* when the object holding it is.
Parent(k) ==
    CASE k = "submods" -> "root"
      [] k = "cpu0" -> "submods"
      [] k = "ear.status" -> "cpu0"
      [] k = "ear.trustworthiness-vector" -> "cpu0"
      [] k = "ear.veraison.annotated-evidence" -> "cpu0"
      [] k = "tdx" -> "ear.veraison.annotated-evidence"
      [] k = "quote" -> "tdx"
      [] k = "body" -> "quote"
      [] k = "report_data" -> "body"
      [] k = "uefi_event_logs" -> "tdx"

PathKeys ==
    { "submods", "cpu0", "ear.status", "ear.trustworthiness-vector",
      "ear.veraison.annotated-evidence", "tdx", "quote", "body", "report_data",
      "uefi_event_logs" }

\* A decoded JSON value: obj is FALSE for a value that is not an object (a
\* list, a number); keys are the path keys present; logs is the
\* uefi_event_logs list.
JsonValue(obj, keys, logs) == [obj |-> obj, keys |-> keys, logs |-> logs]

EmptyObject == JsonValue(TRUE, {}, <<>>)

KeySets ==
    { s \in SUBSET PathKeys : \A k \in s : Parent(k) = "root" \/ Parent(k) \in s }

\* Token payloads with uefi_event_logs lists of at most n entries.
Payloads(n) ==
    { JsonValue(FALSE, {}, <<>>) } \cup
    UNION { { JsonValue(TRUE, ks, ls) :
                ls \in IF "uefi_event_logs" \in ks
                         THEN SeqsUpTo(LogEntries, n) ELSE { <<>> } } :
            ks \in KeySets }

\* One dot-separated part of the response body: its length in characters,
\* whether the decoded bytes are JSON text, and the JSON value they hold.
Segment(len, text, val) == [len |-> len, text |-> text, val |-> val]

Opaque == Segment(3, "notjson", EmptyObject)

HeaderSegments ==
    { Segment(5, "json", EmptyObject),
      Segment(4, "notjson", EmptyObject),
      Segment(4, "json", EmptyObject),
      Segment(3, "json", EmptyObject),
      Segment(2, "json", EmptyObject) }

PayloadSegments(ps) ==
    { Segment(9, "json", EmptyObject), Segment(8, "notjson", EmptyObject) }
    \cup { Segment(6, "json", p) : p \in ps }

\* Response bodies: jwt_token.split('.') has one part more than the body
\* has dots.
Tokens(ps) ==
    { [i \in 1..n |-> Opaque] : n \in (1..MaxParts) \ {3} }
    \cup { <<h, p, Opaque>> : h \in HeaderSegments, p \in PayloadSegments(ps) }

\* evidence.json: whether it exists, what json.load makes of it, whether the
\* object has the 'evidence' key, and the value under it.
Str(s) == [type |-> "str", s |-> s]
Null == [type |-> "null", s |-> ""]
Unset == [type |-> "unset", s |-> ""]

EvidenceFile(exists, json, hasKey, value) ==
    [exists |-> exists, json |-> json, hasKey |-> hasKey, evidence |-> value]

EvidenceFiles ==
    { EvidenceFile(FALSE, "none", FALSE, Unset),
      EvidenceFile(TRUE, "malformed", FALSE, Unset),
      EvidenceFile(TRUE, "list", FALSE, Unset),
      EvidenceFile(TRUE, "object", FALSE, Unset),
      EvidenceFile(TRUE, "object", TRUE, Null),
      EvidenceFile(TRUE, "object", TRUE, Str("")),
      EvidenceFile(TRUE, "object", TRUE, Str("BAACAQ")) }

\* IMAGE_ID, INSTANCE_ID, INSTANCE_NAME, OWNER_ACCOUNT_ID; "" when unset
Envs ==
    [image_id : {"", "img-1"}, instance_id : {"", "i-1"},
     instance_name : {"", "tapp-1"}, owner_account_id : {"", "acct-1"}]

NoIdentity ==
    [image_id |-> "", instance_id |-> "", instance_name |-> "",
     owner_account_id |-> ""]

\* What the endpoint answers: the status, the body of a 200 answer, and
\* whether the body of another answer parses as JSON.
Response(status, body, jsonBody) ==
    [status |-> status, body |-> body, jsonBody |-> jsonBody]

NoResponse == Response(0, <<>>, FALSE)

Responses(ps) ==
    { Response(200, t, FALSE) : t \in Tokens(ps) }
    \cup { Response(st, <<>>, j) : st \in {201, 403}, j \in BOOLEAN }

(***************************************************************************)
(* decode_jwt                                                              *)
(***************************************************************************)
\* Fault: the part is decoded as received, without '=' padding.
NoPadding(len) == 0

\* header_b64 += '=' * (4 - len(header_b64) % 4)
Padding(len) == 4 - (len % 4)

\* base64.urlsafe_b64decode of a segment of len data characters followed by
\* pad '=' characters: a number of data characters that is 1 more than a
\* multiple of 4 raises binascii.Error, and so does too little padding;
\* excess padding is discarded.
UrlsafeB64DecodeOk(len, pad) ==
    /\ len % 4 # 1
    /\ pad >= (4 - (len % 4)) % 4

\* base64 decode, .decode() and json.loads of one part
DecodeSegment(seg) ==
    [ok |-> UrlsafeB64DecodeOk(seg.len, Padding(seg.len)) /\ seg.text = "json",
     val |-> seg.val]

\* What a block of the summary printed and the exception it raised.
Ran(printed) == [out |-> printed, exc |-> "none"]
Raised(e) == [out |-> <<>>, exc |-> e]
Then(r, next) ==
    IF r.exc # "none" THEN r
    ELSE [out |-> r.out \o next.out, exc |-> next.exc]

\* cpu0 = payload['submods']['cpu0']; verification_status = cpu0['ear.status']
ExtractStatus(p) ==
    IF ~p.obj THEN Raised("TypeError")
    ELSE IF "submods" \notin p.keys \/ "cpu0" \notin p.keys
            \/ "ear.status" \notin p.keys
         THEN Raised("KeyError")
         ELSE Ran(<<"verification status">>)

TrustVector(p) ==
    IF "ear.trustworthiness-vector" \in p.keys
    THEN Ran(<<"trustworthiness vector">>)
    ELSE Ran(<<>>)

HasEvidence(p) == "ear.veraison.annotated-evidence" \in p.keys

ReportData(p) ==
    IF HasEvidence(p) /\ "tdx" \in p.keys /\ "quote" \in p.keys
    THEN IF "body" \notin p.keys THEN Raised("KeyError")
         ELSE IF "report_data" \in p.keys THEN Ran(<<"Report Data">>)
              ELSE Ran(<<"Report Data: N/A">>)
    ELSE Ran(<<>>)

HasLogs(p) == HasEvidence(p) /\ "tdx" \in p.keys /\ "uefi_event_logs" \in p.keys

\* 'details' in log and 'data' in log['details'] and isinstance(data, dict)
DictData(log) == log.details /\ log.data # "absent" /\ log.data = "dict"

IsStartApp(log) == DictData(log) /\ log.operation = "start_app"

IsCryptpilot(log) == DictData(log) /\ log.domain = CryptpilotDomain

\* The output of one filter pass, given the matching entries in list order:
\* a line per match, and the not-found line when the found flag was never
\* set.
FilterLogs(hits, entryLine, notFoundLine) ==
    [i \in 1..Len(hits) |-> entryLine]
    \o (IF Len(hits) = 0 THEN <<notFoundLine>> ELSE <<>>)

StartAppLogs(p) ==
    IF HasLogs(p)
    THEN Ran(<<"Start App logs">>
             \o FilterLogs(SelectSeq(p.logs, IsStartApp), "start_app entry",
                           "start_app log not found"))
    ELSE Ran(<<>>)

CryptpilotLogs(p, v) ==
    IF v /\ HasLogs(p)
    THEN Ran(<<"Cryptpilot logs">>
             \o FilterLogs(SelectSeq(p.logs, IsCryptpilot), "cryptpilot entry",
                           "cryptpilot log not found"))
    ELSE Ran(<<>>)

\* The inner try block and its two handlers.
Summary(p, v) ==
    LET r == Then(Then(Then(Then(ExtractStatus(p), TrustVector(p)), ReportData(p)),
                       StartAppLogs(p)), CryptpilotLogs(p, v))
    IN  r.out \o
        (CASE r.exc = "none" -> <<>>
           [] r.exc = "KeyError" -> <<"JWT payload missing expected fields">>
           [] OTHER -> <<"error extracting information">>
                       \o (IF v THEN <<"traceback">> ELSE <<>>))

NoFile == [state |-> "absent", token |-> <<>>, json |-> EmptyObject]
StaleFile == [state |-> "stale", token |-> <<>>, json |-> EmptyObject]
PayloadFile(p) == [state |-> "written", token |-> <<>>, json |-> p]
TokenFile(t) == [state |-> "written", token |-> t, json |-> EmptyObject]

IfVerbose(v, line) == IF v THEN <<line>> ELSE <<>>

\* decode_jwt(jwt_token, verbose): what it prints and what jwt_payload.json
\* holds afterwards.  It never raises: the outer handler catches Exception.
DecodeJwt(token, v, file) ==
    IF Len(token) # 3
    THEN [out |-> <<"invalid JWT format">>, payloadFile |-> file]
    ELSE LET h == DecodeSegment(token[1])
             p == DecodeSegment(token[2])
         IN  IF ~h.ok
             THEN [out |-> <<"failed to decode JWT", "traceback">>, payloadFile |-> file]
             ELSE IF ~p.ok
             THEN [out |-> IfVerbose(v, "JWT Header")
                           \o <<"failed to decode JWT", "traceback">>,
                   payloadFile |-> file]
             ELSE [out |-> IfVerbose(v, "JWT Header")
                           \o IfVerbose(v, "JWT Payload (full)")
                           \o IfVerbose(v, "JWT payload is saved")
                           \o <<"verification result">>
                           \o Summary(p.val, v),
                   payloadFile |-> PayloadFile(p.val)]

(***************************************************************************)
(* verify_evidence                                                         *)
(***************************************************************************)
\* Fault: the field is read with a default (evidence_data.get('evidence')),
\* so a missing key raises nothing.
LoadOutcomeWithDefault(f) ==
    IF ~f.exists THEN "FileNotFoundError"
    ELSE IF f.json = "malformed" THEN "JSONDecodeError"
    ELSE IF f.json # "object" THEN "TypeError"
    ELSE "ok"

\* The try block that reads evidence.json: the exception it raises, or "ok".
LoadOutcome(f) ==
    IF ~f.exists THEN "FileNotFoundError"
    ELSE IF f.json = "malformed" THEN "JSONDecodeError"
    ELSE IF f.json # "object" THEN "TypeError"
    ELSE IF ~f.hasKey THEN "KeyError"
    ELSE "ok"

LoadMessage(outcome) ==
    CASE outcome = "FileNotFoundError" -> "evidence.json file not found"
      [] outcome = "KeyError" -> "'evidence' field not found in JSON"
      [] OTHER -> "failed to load evidence"

\* aa_instance_info: the keys set, in insertion order, each with its value
IdentityPair(key, value) == IF value # "" THEN << <<key, value>> >> ELSE <<>>

\* Fault: the four keys are always set, empty values included.
AAInstanceInfoAllKeys(e) ==
    << <<"image_id", e.image_id>>, <<"instance_id", e.instance_id>>,
       <<"instance_name", e.instance_name>>,
       <<"owner_account_id", e.owner_account_id>> >>

AAInstanceInfo(e) ==
    IdentityPair("image_id", e.image_id)
    \o IdentityPair("instance_id", e.instance_id)
    \o IdentityPair("instance_name", e.instance_name)
    \o IdentityPair("owner_account_id", e.owner_account_id)

\* if image_id or instance_id or instance_name or owner_account_id
HasIdentity(e) ==
    e.image_id # "" \/ e.instance_id # "" \/ e.instance_name # ""
    \/ e.owner_account_id # ""

\* The request headers: their names, and the object serialised into the
\* AAInstanceInfo header (empty when the header is not set).
NoHeaders == [names |-> {}, aa |-> <<>>]

Headers(e) ==
    IF HasIdentity(e)
    THEN [names |-> {"Content-Type", "AAInstanceInfo"}, aa |-> AAInstanceInfo(e)]
    ELSE [names |-> {"Content-Type"}, aa |-> <<>>]

\* The POST as sent: the evidence of the one verification request and the
\* headers.
Request(evidence, hdrs) == [evidence |-> evidence, headers |-> hdrs]

\* Fault: every 2xx status is taken for success.
IsSuccessAny2xx(status) == status \in 200..299

\* if response.status_code == 200
IsSuccess(status) == status = 200

Exit(code) == pc' = "exit" /\ exitCode' = code

TypeOK ==
    /\ pc \in {"start", "loaded", "built", "responded", "returned", "exit"}
    /\ exitCode \in {-1, 0, 1}
    /\ (pc = "exit") = (exitCode # -1)
    /\ Len(posted) <= 1
    /\ decodeCalls \in {0, 1}

InitWith(envs, evidenceFiles, files) ==
    /\ pc = "start"
    /\ env \in envs
    /\ verbose \in BOOLEAN
    /\ evidenceFile \in evidenceFiles
    /\ startFiles \in files
    /\ evidence_body = Unset
    /\ headers = NoHeaders
    /\ posted = <<>>
    /\ response = NoResponse
    /\ jwtTokenFile = startFiles.token
    /\ jwtPayloadFile = startFiles.payload
    /\ decodeCalls = 0
    /\ out = <<>>
    /\ exitCode = -1

\* The output files a previous run can have left behind.
StartFiles ==
    { [token |-> NoFile, payload |-> NoFile],
      [token |-> StaleFile, payload |-> NoFile],
      [token |-> StaleFile, payload |-> StaleFile] }

\* Read evidence.json; any exception ends the run with exit status 1.
LoadEvidence ==
    /\ pc = "start"
    /\ LET outcome == LoadOutcome(evidenceFile)
       IN  IF outcome = "ok"
           THEN /\ evidence_body' = evidenceFile.evidence
                /\ out' = out \o <<"read evidence file">>
                /\ pc' = "loaded"
                /\ exitCode' = exitCode
           ELSE /\ evidence_body' = evidence_body
                /\ out' = out \o <<"read evidence file", LoadMessage(outcome)>>
                     \o (IF outcome \in {"FileNotFoundError", "KeyError"}
                         THEN <<>> ELSE <<"traceback">>)
                /\ Exit(1)
    /\ UNCHANGED <<env, verbose, evidenceFile, startFiles, headers, posted,
                   response, jwtTokenFile, jwtPayloadFile, decodeCalls>>

\* Print the evidence length and policy, build the payload and the headers.
\* len() of a null evidence raises TypeError outside any try block: the
\* interpreter prints the traceback and exits with status 1.
BuildRequest ==
    /\ pc = "loaded"
    /\ IF evidence_body.type # "str"
       THEN /\ out' = out \o <<"traceback">>
            /\ headers' = headers
            /\ Exit(1)
       ELSE /\ out' = out \o <<"Evidence base64 length", "use Policy ID">>
                 \o (IF HasIdentity(env) THEN <<"use AAInstanceInfo">> ELSE <<>>)
            /\ headers' = Headers(env)
            /\ pc' = "built"
            /\ exitCode' = exitCode
    /\ UNCHANGED <<env, verbose, evidenceFile, startFiles, evidence_body, posted,
                   response, jwtTokenFile, jwtPayloadFile, decodeCalls>>

\* requests.post returns a response.
PostWith(ps) ==
    /\ pc = "built"
    /\ \E r \in Responses(ps) :
          /\ response' = r
          /\ posted' = Append(posted, Request(evidence_body, headers))
          /\ out' = out \o <<"send verification request", "HTTP status code">>
          /\ pc' = "responded"
    /\ UNCHANGED <<env, verbose, evidenceFile, startFiles, evidence_body, headers,
                   jwtTokenFile, jwtPayloadFile, decodeCalls, exitCode>>

\* requests.post raises a RequestException (connection refused, timeout).
PostFails ==
    /\ pc = "built"
    /\ posted' = Append(posted, Request(evidence_body, headers))
    /\ out' = out \o <<"send verification request", "request error", "traceback">>
    /\ Exit(1)
    /\ UNCHANGED <<env, verbose, evidenceFile, startFiles, evidence_body, headers,
                   response, jwtTokenFile, jwtPayloadFile, decodeCalls>>

\* Status 200: decode the token, then save it to jwt_token.txt.
HandleSuccess ==
    /\ pc = "responded"
    /\ IsSuccess(response.status)
    /\ LET d == DecodeJwt(response.body, verbose, jwtPayloadFile)
       IN  /\ decodeCalls' = decodeCalls + 1
           /\ jwtPayloadFile' = d.payloadFile
           /\ jwtTokenFile' = TokenFile(response.body)
           /\ out' = out \o <<"TDX quote verification succeeded">> \o d.out
                    \o <<"JWT token is saved to jwt_token.txt">>
    /\ pc' = "returned"
    /\ UNCHANGED <<env, verbose, evidenceFile, startFiles, evidence_body, headers,
                   posted, response, exitCode>>

\* Any other status: print the error response and exit with status 1.
HandleFailure ==
    /\ pc = "responded"
    /\ ~IsSuccess(response.status)
    /\ out' = out \o <<"TDX quote verification failed">>
             \o (IF response.jsonBody THEN <<"error response (json)">>
                 ELSE <<"error response (text)">>)
    /\ Exit(1)
    /\ UNCHANGED <<env, verbose, evidenceFile, startFiles, evidence_body, headers,
                   posted, response, jwtTokenFile, jwtPayloadFile, decodeCalls>>

\* verify_evidence and main return: the process ends with status 0.
Return ==
    /\ pc = "returned"
    /\ Exit(0)
    /\ UNCHANGED <<env, verbose, evidenceFile, startFiles, evidence_body, headers,
                   posted, response, jwtTokenFile, jwtPayloadFile, decodeCalls, out>>

\* Runs under every identity context, with tokens whose log lists are empty.
Init == InitWith(Envs, EvidenceFiles, StartFiles)

Post == PostWith(Payloads(0))

Next ==
    \/ LoadEvidence
    \/ BuildRequest
    \/ Post
    \/ PostFails
    \/ HandleSuccess
    \/ HandleFailure
    \/ Return

Spec == Init /\ [][Next]_vars

\* Runs with at most an instance id and no empty evidence string, with
\* tokens whose log lists have up to MaxLogs entries.
InitDecode ==
    InitWith({NoIdentity, [NoIdentity EXCEPT !.instance_id = "i-1"]},
             { f \in EvidenceFiles : f.evidence # Str("") }, StartFiles)

PostDecode == PostWith(Payloads(MaxLogs))

NextDecode ==
    \/ LoadEvidence
    \/ BuildRequest
    \/ PostDecode
    \/ PostFails
    \/ HandleSuccess
    \/ HandleFailure
    \/ Return

SpecDecode == InitDecode /\ [][NextDecode]_vars

(***************************************************************************)
(* Vocabulary of the properties, stated on the inputs and the observable   *)
(* results of the run, not through the operators above.                   *)
(***************************************************************************)
Done == pc = "exit"

Range(q) == { q[i] : i \in DOMAIN q }

\* evidence.json is missing, is not a JSON object, or lacks 'evidence'
BadEvidenceFile ==
    \/ ~evidenceFile.exists
    \/ evidenceFile.json # "object"
    \/ ~evidenceFile.hasKey

Answered == response # NoResponse

\* a part that is base64url text of a JSON document
ValidSegment(seg) == seg.len % 4 # 1 /\ seg.text = "json"

\* three parts, the first two decodable
ValidToken(t) == Len(t) = 3 /\ ValidSegment(t[1]) /\ ValidSegment(t[2])

\* the object lacks submods.cpu0['ear.status']
LacksStatus(p) == p.obj /\ ~({"submods", "cpu0", "ear.status"} \subseteq p.keys)

Printed(line) == \E i \in DOMAIN out : out[i] = line

Decoded == decodeCalls = 1

(***************************************************************************)
(* C1: the exit code is 0 only on full success; in particular a run in     *)
(* which the endpoint answers 200 with a token that does not parse (not    *)
(* three parts, or a part that is not base64url JSON) exits non-zero.      *)
(* The code contradicts it: decode_jwt reports the parse failure and       *)
(* returns, and the run saves the token and ends with status 0.            *)
(***************************************************************************)
C1_ExitZeroOnlyOnFullSuccess ==
    (Done /\ exitCode = 0) =>
        /\ ~BadEvidenceFile
        /\ Answered /\ response.status = 200
        /\ ValidToken(response.body)

(***************************************************************************)
(* C2: with evidence.json missing, not valid JSON or without the           *)
(* 'evidence' key, the run ends at the load step with a non-zero exit code *)
(* and no request is sent; a request is only sent after the load           *)
(* succeeded, and carries the loaded evidence.                             *)
(***************************************************************************)
C2_NoPostWithoutEvidence ==
    /\ BadEvidenceFile =>
          /\ posted = <<>>
          /\ ~Answered
          /\ pc \in {"start", "exit"}
          /\ pc = "start" => ENABLED LoadEvidence
          /\ Done => exitCode = 1
    /\ posted # <<>> =>
          /\ ~BadEvidenceFile
          /\ posted[1].evidence = evidenceFile.evidence

C2_Witness ==
    /\ Done /\ exitCode = 1 /\ posted = <<>>
    /\ evidenceFile.exists /\ evidenceFile.json = "object" /\ ~evidenceFile.hasKey
    /\ Printed("'evidence' field not found in JSON")

(***************************************************************************)
(* C3: when the endpoint answers with a status other than 200, whether or  *)
(* not the body parses as JSON, the run exits non-zero, decode_jwt is not  *)
(* invoked, and jwt_token.txt and jwt_payload.json are as they were at the *)
(* start.                                                                  *)
(***************************************************************************)
C3_Non200LeavesArtifacts ==
    (Answered /\ response.status # 200) =>
        /\ jwtTokenFile = startFiles.token
        /\ jwtPayloadFile = startFiles.payload
        /\ decodeCalls = 0
        /\ pc \in {"responded", "exit"}
        /\ pc = "responded" => ENABLED HandleFailure
        /\ Done => exitCode = 1

C3_Witness ==
    /\ Done /\ exitCode = 1
    /\ Answered /\ response.status = 403 /\ response.jsonBody
    /\ startFiles.token = StaleFile /\ jwtTokenFile = StaleFile
    /\ Printed("error response (json)")

(***************************************************************************)
(* C4: with a well-formed evidence file and a 200 answer carrying a valid  *)
(* three-part token, the token is handed to decode_jwt, jwt_payload.json   *)
(* holds the decoded payload, jwt_token.txt holds the response body, and   *)
(* the process exits 0.                                                    *)
(***************************************************************************)
C4_ValidTokenRunSucceeds ==
    (Answered /\ response.status = 200 /\ ValidToken(response.body)) =>
        /\ ~BadEvidenceFile
        /\ pc \in {"responded", "returned", "exit"}
        /\ pc = "responded" => ENABLED HandleSuccess
        /\ pc = "returned" => ENABLED Return
        /\ pc \in {"returned", "exit"} =>
              /\ decodeCalls = 1
              /\ jwtPayloadFile = PayloadFile(response.body[2].val)
              /\ jwtTokenFile = TokenFile(response.body)
        /\ Done => exitCode = 0

C4_Witness ==
    /\ Done /\ exitCode = 0
    /\ Answered /\ response.status = 200 /\ ValidToken(response.body)
    /\ response.body[1].len % 4 = 2
    /\ jwtTokenFile.state = "written" /\ jwtPayloadFile.state = "written"

(***************************************************************************)
(* C5: for a token whose payload part decodes to a JSON object lacking     *)
(* submods.cpu0['ear.status'], decode_jwt writes the decoded payload to    *)
(* jwt_payload.json and reports the missing field, verbose or not.  The    *)
(* code contradicts it when the header part does not decode (see C9): the  *)
(* payload part is then never decoded and the file is not written.         *)
(***************************************************************************)
C5_PayloadWrittenWhenStatusMissing ==
    ( /\ Decoded
      /\ Len(response.body) = 3
      /\ ValidSegment(response.body[2])
      /\ LacksStatus(response.body[2].val) ) =>
        /\ jwtPayloadFile = PayloadFile(response.body[2].val)
        /\ Printed("JWT payload missing expected fields")

\* C5 where the header part decodes: the payload is written and the
\* missing field reported.
C5_HoldsWhenHeaderDecodes ==
    ( /\ Decoded
      /\ ValidToken(response.body)
      /\ LacksStatus(response.body[2].val) ) =>
        /\ jwtPayloadFile = PayloadFile(response.body[2].val)
        /\ Printed("JWT payload missing expected fields")

(***************************************************************************)
(* C6: a verification request is only ever sent with a non-empty evidence  *)
(* payload.  The code contradicts it: only the presence of the 'evidence'  *)
(* key is checked, and an empty string is posted.                          *)
(***************************************************************************)
C6_PostedEvidenceNonEmpty ==
    \A i \in DOMAIN posted :
        posted[i].evidence.type = "str" /\ posted[i].evidence.s # ""

(***************************************************************************)
(* C7: the request carries the AAInstanceInfo header if and only if one of *)
(* the four identity values is non-empty; the header's object then holds   *)
(* exactly the keys whose values are non-empty, each with its value; with  *)
(* all four empty the only header is Content-Type.                         *)
(***************************************************************************)
IdentityKeys == {"image_id", "instance_id", "instance_name", "owner_account_id"}

NonEmptyKeys(e) == { k \in IdentityKeys : e[k] # "" }

C7_IdentityHeader ==
    \A i \in DOMAIN posted :
        LET h == posted[i].headers
        IN  /\ "Content-Type" \in h.names
            /\ h.names \subseteq {"Content-Type", "AAInstanceInfo"}
            /\ ("AAInstanceInfo" \in h.names) = (NonEmptyKeys(env) # {})
            /\ { kv[1] : kv \in Range(h.aa) } = NonEmptyKeys(env)
            /\ Len(h.aa) = Cardinality(NonEmptyKeys(env))
            /\ \A kv \in Range(h.aa) : kv[2] = env[kv[1]] /\ kv[2] # ""

C7_Witness ==
    /\ posted # <<>>
    /\ NonEmptyKeys(env) = {"image_id", "owner_account_id"}
    /\ "AAInstanceInfo" \in posted[1].headers.names

(***************************************************************************)
(* C8: for every decoded token with a uefi_event_logs list, the start_app  *)
(* filter prints its not-found line exactly when no entry has              *)
(* details.data.operation = 'start_app', and the cryptpilot filter prints  *)
(* its not-found line exactly when the run is verbose and no entry has the *)
(* cryptpilot domain.  The code contradicts it when an earlier key of the  *)
(* summary is absent (see C10): the filters are then skipped in silence.   *)
(***************************************************************************)
HasStartApp(logs) ==
    \E i \in DOMAIN logs :
        logs[i].details /\ logs[i].data = "dict" /\ logs[i].operation = "start_app"

HasCryptpilot(logs) ==
    \E i \in DOMAIN logs :
        logs[i].details /\ logs[i].data = "dict" /\ logs[i].domain = CryptpilotDomain

LogsListed(p) ==
    {"ear.veraison.annotated-evidence", "tdx", "uefi_event_logs"} \subseteq p.keys

FiltersReport(p) ==
    /\ Printed("start_app log not found") = ~HasStartApp(p.logs)
    /\ Printed("cryptpilot log not found") = (verbose /\ ~HasCryptpilot(p.logs))
    /\ ~Printed("error extracting information")

C8_FiltersReportNotFound ==
    ( /\ Decoded
      /\ ValidToken(response.body)
      /\ LogsListed(response.body[2].val) ) =>
        FiltersReport(response.body[2].val)

\* C8 where no earlier step of the summary raised: both filters report.
C8_HoldsWhenFiltersReached ==
    ( /\ Decoded
      /\ ValidToken(response.body)
      /\ LogsListed(response.body[2].val)
      /\ ~Printed("JWT payload missing expected fields") ) =>
        FiltersReport(response.body[2].val)

(***************************************************************************)
(* C9: a decoding failure in the header part does not prevent the payload  *)
(* part from being decoded, written to jwt_payload.json and summarised.    *)
(* The code contradicts it: both decodes share one try block, and the      *)
(* handler of the header failure ends decode_jwt.                          *)
(***************************************************************************)
C9_HeaderFailureKeepsPayload ==
    ( /\ Decoded
      /\ Len(response.body) = 3
      /\ ~ValidSegment(response.body[1])
      /\ ValidSegment(response.body[2]) ) =>
        /\ Printed("failed to decode JWT")
        /\ jwtPayloadFile = PayloadFile(response.body[2].val)
        /\ Printed("verification result")

(***************************************************************************)
(* C10: when a key on the summary path is absent (ear.status, or body      *)
(* under tdx.quote), it is reported as a missing field and the steps that  *)
(* follow still run: the trust vector, the report data and the log filters *)
(* produce their output when their own data is present.  The code          *)
(* contradicts it: the KeyError leaves the try block, and nothing after    *)
(* the missing key is printed.                                             *)
(***************************************************************************)
C10_SummaryContinuesAfterMissingKey ==
    ( /\ Decoded
      /\ ValidToken(response.body)
      /\ response.body[2].val.obj ) =>
        LET p == response.body[2].val
        IN  /\ LacksStatus(p) => Printed("JWT payload missing expected fields")
            /\ "ear.trustworthiness-vector" \in p.keys
                  => Printed("trustworthiness vector")
            /\ "report_data" \in p.keys => Printed("Report Data")
            /\ LogsListed(p) => Printed("Start App logs")
            /\ (verbose /\ LogsListed(p)) => Printed("Cryptpilot logs")

\* C10 where ear.status is present and a quote has its body: every step of
\* the summary whose data is present prints.
C10_HoldsWhenNoKeyMissing ==
    ( /\ Decoded
      /\ ValidToken(response.body)
      /\ ~Printed("JWT payload missing expected fields")
      /\ response.body[2].val.obj ) =>
        LET p == response.body[2].val
        IN  /\ ~LacksStatus(p)
            /\ "ear.trustworthiness-vector" \in p.keys
                  => Printed("trustworthiness vector")
            /\ "report_data" \in p.keys => Printed("Report Data")
            /\ LogsListed(p) => Printed("Start App logs")
            /\ (verbose /\ LogsListed(p)) => Printed("Cryptpilot logs")

====
